---- MODULE Spec2Model ----
(***************************************************************************)
(* The canvas interaction core of the T-shirt design editor                *)
(* (src/src/components/DesignCanvas.tsx, with the colour and font-size     *)
(* state of src/src/App.tsx that src/src/components/Toolbar.tsx sets).     *)
(*                                                                         *)
(* One action per event handler.  Every handler runs to completion and the *)
(* component re-renders before the next event, so each handler reads the   *)
(* state left by the previous one.  Pointer coordinates are canvas         *)
(* coordinates (clientX - rect.left, clientY - rect.top) and are integers. *)
(***************************************************************************)
EXTENDS Integers, Sequences, FiniteSets

VARIABLES
    elements,         \* useState<DesignElement[]>([])              line 24
    selectedElement,  \* useState<string | null>(null)              line 25
    isDragging,       \* useState(false)                            line 26
    dragOffset,       \* useState({ x: 0, y: 0 })                   line 27
    showTextInput,    \* useState(false)                            line 28
    inputText,        \* useState('')                               line 29
    imageCache,       \* useState<Map<string, HTMLImageElement>>    line 31
    isResizing,       \* useState(false)                            line 32
    resizeHandle,     \* useState<string | null>(null)              line 33
    selectedColor,    \* App.tsx line 7, prop of DesignCanvas
    globalFontSize,   \* App.tsx line 8, prop of DesignCanvas
    now,              \* the last reading of Date.now()
    readers,          \* FileReaders whose onload has not fired yet
    decoding,         \* Images whose onload has not fired yet (by src)
    moves             \* number of pointer-moves that changed an element so far

vars == <<elements, selectedElement, isDragging, dragOffset, showTextInput,
          inputText, imageCache, isResizing, resizeHandle, selectedColor,
          globalFontSize, now, readers, decoding, moves>>

(* Groups of variables, for the frame conditions. *)
pointerVars == <<selectedElement, isDragging, dragOffset, isResizing, resizeHandle>>
dialogVars == <<showTextInput, inputText>>
toolbarVars == <<selectedColor, globalFontSize>>
imageVars == <<imageCache, readers, decoding>>

-----------------------------------------------------------------------------
(* Bounds of the exploration *)

MaxElements == 2   \* elements in the store
MaxMoves == 1      \* pointer-moves that change an element
MaxClock == 1      \* readings of Date.now() are 0..MaxClock
MaxReaders == 1    \* FileReaders in flight
MaxDecoding == 1   \* Images being decoded

(* Pointer positions, in canvas coordinates.  A new shape occupies        *)
(* 200..250 in both directions: the grid holds its corners (the handles   *)
(* of a rectangle), the middles of its sides (the handles of a circle)    *)
(* and its centre.                                                        *)
Coords == {200, 225, 250}
DownPoints == [x : Coords, y : Coords]

(* Where the pointer moves to: the top-left and the bottom-right corner of *)
(* a new shape and a point inside it, off its diagonals.  From each       *)
(* handle one of them triggers the minimum-size clamp in width, in height *)
(* or in both, and one triggers none.                                     *)
MovePoints == {[x |-> 200, y |-> 200], [x |-> 240, y |-> 215], [x |-> 250, y |-> 250]}

(* The pointer positions exercised together with the dialog, the toolbar  *)
(* and the file input.  Pressed at a point inside every new shape and     *)
(* image and inside a text of two characters at font size 24, which is on *)
(* the n handle of a new circle and on no handle of a rectangle or image; *)
(* moved to the centre of a new shape.                                    *)
FewDownPoints == {[x |-> 225, y |-> 205]}
FewMovePoints == {[x |-> 225, y |-> 225]}

(* Toolbar palette entries and slider positions that are exercised. *)
Colors == {"#000000", "#ff0000"}
FontSizes == {16, 24}

(* Texts typed into the dialog, as sequences of characters. *)
InputTexts == {<< >>, <<" ">>, <<" ", "A">>}

(* Files offered to the file input: none, a non-image, an image.  An image *)
(* file reads as the data URL in its result field.                         *)
Files == {[present |-> FALSE, type |-> "", result |-> ""],
          [present |-> TRUE, type |-> "text/plain", result |-> "data:text/plain;a"],
          [present |-> TRUE, type |-> "image/png", result |-> "data:image/png;a"]}

Keys == {"Escape", "Enter"}

-----------------------------------------------------------------------------
(* JavaScript values *)

Null == "null"

(* if (s) for s : string | null *)
Truthy(s) == s # Null /\ s # ""

(* The second argument, whatever the first. *)
Max_second(a, b) == b

Max(a, b) == IF a >= b THEN a ELSE b

Digit == <<"0", "1", "2", "3", "4", "5", "6", "7", "8", "9">>

(* Number.prototype.toString, for the non-negative integers of Date.now() *)
RECURSIVE toString(_)
toString(n) == IF n < 10 THEN Digit[n + 1]
               ELSE toString(n \div 10) \o Digit[(n % 10) + 1]

IsSpace(c) == c = " "

RECURSIVE TrimStart(_)
TrimStart(s) == IF s # << >> /\ IsSpace(Head(s)) THEN TrimStart(Tail(s)) ELSE s

RECURSIVE TrimEnd(_)
TrimEnd(s) == IF s # << >> /\ IsSpace(s[Len(s)])
              THEN TrimEnd(SubSeq(s, 1, Len(s) - 1)) ELSE s

(* trim left out: the text is tested as typed. *)
trim_none(s) == s

trim(s) == TrimEnd(TrimStart(s))

(* The type test left out: every chosen file is read. *)
IsImageType_any(t) == TRUE

(* String.prototype.startsWith on the MIME types used here *)
IsImageType(t) == t \in {"image/png"}

(* e.f || d for an optional numeric field *)
OrDefault(e, f, d) == IF f \in DOMAIN e /\ e[f] # 0 THEN e[f] ELSE d

-----------------------------------------------------------------------------
(* Geometry *)

DefaultSize(e) == IF e.type = "image" THEN 100 ELSE 50
WidthOf(e) == OrDefault(e, "width", DefaultSize(e))
HeightOf(e) == OrDefault(e, "height", DefaultSize(e))

IsCircle(e) == e.type = "shape" /\ e.shapeType = "circle"

(* ctx.measureText(text).width: the advance of each character is taken as *)
(* half the font size.                                                    *)
getTextWidth(text, fontSize) == (Len(text) * fontSize) \div 2

handleSize == 8

InBox(p, x1, x2, y1, y2) == p.x >= x1 /\ p.x <= x2 /\ p.y >= y1 /\ p.y <= y2

(* Centre coordinates are kept doubled, so that width / 2 is exact. *)
getResizeHandle(p, e) ==
    IF e.type = "text" THEN Null
    ELSE LET width == WidthOf(e)
             height == HeightOf(e)
             cx2 == 2 * e.x + width
             cy2 == 2 * e.y + width
             NearX(a) == p.x >= a - handleSize /\ p.x <= a + handleSize
             NearY(b) == p.y >= b - handleSize /\ p.y <= b + handleSize
             NearX2(a2) == 2 * p.x >= a2 - 2 * handleSize /\ 2 * p.x <= a2 + 2 * handleSize
             NearY2(b2) == 2 * p.y >= b2 - 2 * handleSize /\ 2 * p.y <= b2 + 2 * handleSize
         IN IF IsCircle(e)
            THEN CASE NearX2(cx2) /\ NearY(e.y) -> "n"
                   [] NearX(e.x + width) /\ NearY2(cy2) -> "e"
                   [] NearX2(cx2) /\ NearY(e.y + height) -> "s"
                   [] NearX(e.x) /\ NearY2(cy2) -> "w"
                   [] OTHER -> Null
            ELSE CASE NearX(e.x) /\ NearY(e.y) -> "nw"
                   [] NearX(e.x + width) /\ NearY(e.y) -> "ne"
                   [] NearX(e.x) /\ NearY(e.y + height) -> "sw"
                   [] NearX(e.x + width) /\ NearY(e.y + height) -> "se"
                   [] OTHER -> Null

(* element.content || '' *)
OrEmpty(e) == IF "content" \in DOMAIN e THEN e.content ELSE << >>

(* The circle tested by its bounding box, like a rectangle. *)
HitTest_circleAsBox(p, e) ==
    IF e.type = "text"
    THEN LET textWidth == getTextWidth(OrEmpty(e), OrDefault(e, "fontSize", 16))
             textHeight == OrDefault(e, "fontSize", 16)
             padding == 5
         IN InBox(p, e.x - padding, e.x + textWidth + padding,
                  e.y - textHeight - padding, e.y + padding)
    ELSE IF e.type = "image"
    THEN InBox(p, e.x, e.x + OrDefault(e, "width", 100),
               e.y, e.y + OrDefault(e, "height", 100))
    ELSE InBox(p, e.x, e.x + OrDefault(e, "width", 50),
               e.y, e.y + OrDefault(e, "height", 50))

(* The predicate of elements.find in handleCanvasClick. *)
HitTest(p, e) ==
    IF e.type = "text"
    THEN LET textWidth == getTextWidth(OrEmpty(e), OrDefault(e, "fontSize", 16))
             textHeight == OrDefault(e, "fontSize", 16)
             padding == 5
         IN InBox(p, e.x - padding, e.x + textWidth + padding,
                  e.y - textHeight - padding, e.y + padding)
    ELSE IF e.type = "image"
    THEN InBox(p, e.x, e.x + OrDefault(e, "width", 100),
               e.y, e.y + OrDefault(e, "height", 100))
    ELSE IF IsCircle(e)
    THEN LET w == OrDefault(e, "width", 50)
             dx2 == 2 * p.x - (2 * e.x + w)
             dy2 == 2 * p.y - (2 * e.y + w)
         IN dx2 * dx2 + dy2 * dy2 <= w * w
    ELSE InBox(p, e.x, e.x + OrDefault(e, "width", 50),
               e.y, e.y + OrDefault(e, "height", 50))

-----------------------------------------------------------------------------
(* Array helpers *)

(* { ...e, f: v } *)
With(e, f, v) == IF f \in DOMAIN e THEN [e EXCEPT ![f] = v]
                 ELSE [g \in DOMAIN e \cup {f} |-> IF g = f THEN v ELSE e[g]]

(* The last element that passes, where find returns the first. *)
FindIndex_last(passing) ==
    IF passing = {} THEN 0
    ELSE CHOOSE i \in passing : \A j \in passing : j <= i

(* Array.prototype.find, given the set of the indices whose elements pass *)
(* the test: the index of the first element that passes, 0 when there is  *)
(* none.                                                                  *)
FindIndex(passing) ==
    IF passing = {} THEN 0
    ELSE CHOOSE i \in passing : \A j \in passing : i <= j

(* The filter's test inverted: === for !==. *)
RECURSIVE FilterOut_inverted(_, _)
FilterOut_inverted(seq, id) ==
    IF seq = << >> THEN << >>
    ELSE IF Head(seq).id = id THEN <<Head(seq)>> \o FilterOut_inverted(Tail(seq), id)
    ELSE FilterOut_inverted(Tail(seq), id)

(* prev.filter(element => element.id !== id) *)
RECURSIVE FilterOut(_, _)
FilterOut(seq, id) ==
    IF seq = << >> THEN << >>
    ELSE IF Head(seq).id # id THEN <<Head(seq)>> \o FilterOut(Tail(seq), id)
    ELSE FilterOut(Tail(seq), id)

RemoveAt(seq, i) == SubSeq(seq, 1, i - 1) \o SubSeq(seq, i + 1, Len(seq))

-----------------------------------------------------------------------------
(* Pointer handlers *)

(* The index of the element found for the selected id, 0 when none. *)
SelectedIndex ==
    FindIndex({i \in 1..Len(elements) : elements[i].id = selectedElement})

(* The handle a pointer-down at p grabs: the first if-block of            *)
(* handleCanvasClick.  Null when the block falls through.                 *)
GrabbedHandle(p) ==
    IF Truthy(selectedElement) /\ SelectedIndex # 0
    THEN getResizeHandle(p, elements[SelectedIndex])
    ELSE Null

(* The index of clickedElement, 0 when undefined. *)
ClickedIndex(p) ==
    FindIndex({i \in 1..Len(elements) : HitTest(p, elements[i])})

handleCanvasClick(p) ==
    LET handle == GrabbedHandle(p)
        clicked == ClickedIndex(p)
    IN IF Truthy(handle)
       THEN /\ isResizing' = TRUE
            /\ resizeHandle' = handle
            /\ UNCHANGED <<selectedElement, isDragging, dragOffset>>
       ELSE IF clicked # 0
       THEN LET clickedElement == elements[clicked]
            IN /\ selectedElement' = clickedElement.id
               /\ isDragging' = TRUE
               /\ dragOffset' = [x |-> p.x - clickedElement.x,
                                 y |-> p.y - clickedElement.y]
               /\ UNCHANGED <<isResizing, resizeHandle>>
       ELSE /\ selectedElement' = Null
            /\ UNCHANGED <<isDragging, dragOffset, isResizing, resizeHandle>>

handleCanvasMouseDown(p) ==
    /\ UNCHANGED <<elements, dialogVars, toolbarVars, imageVars, now, moves>>
    /\ handleCanvasClick(p)

(* The circle resized with its top-left corner kept. *)
ResizeCircle_cornerKept(e, p, handle) ==
    LET currentWidth == WidthOf(e)
        currentHeight == HeightOf(e)
        cx2 == 2 * e.x + currentWidth
        cy2 == 2 * e.y + currentHeight
        newSize == CASE handle = "n" -> Max(20, cy2 - 2 * p.y)
                     [] handle = "e" -> Max(20, 2 * p.x - cx2)
                     [] handle = "s" -> Max(20, 2 * p.y - cy2)
                     [] handle = "w" -> Max(20, cx2 - 2 * p.x)
                     [] OTHER -> currentWidth
    IN With(With(e, "width", newSize), "height", newSize)

(* The circle branch of the resize: centre kept, width = height. *)
ResizeCircle(e, p, handle) ==
    LET currentWidth == WidthOf(e)
        currentHeight == HeightOf(e)
        cx2 == 2 * e.x + currentWidth
        cy2 == 2 * e.y + currentHeight
        newSize == CASE handle = "n" -> Max(20, cy2 - 2 * p.y)
                     [] handle = "e" -> Max(20, 2 * p.x - cx2)
                     [] handle = "s" -> Max(20, 2 * p.y - cy2)
                     [] handle = "w" -> Max(20, cx2 - 2 * p.x)
                     [] OTHER -> currentWidth
    IN With(With(With(With(e, "width", newSize), "height", newSize),
                 "x", (cx2 - newSize) \div 2), "y", (cy2 - newSize) \div 2)

(* The left and top edges put at the pointer, whatever the clamp did. *)
ResizeRect_edgeAtPointer(e, p, handle) ==
    LET currentWidth == WidthOf(e)
        currentHeight == HeightOf(e)
        newWidth == Max(20, e.x + currentWidth - p.x)
        newHeight == Max(20, e.y + currentHeight - p.y)
    IN CASE handle = "se" ->
              With(With(e, "width", Max(20, p.x - e.x)), "height", Max(20, p.y - e.y))
         [] handle = "sw" ->
              With(With(With(e, "x", p.x),
                        "width", newWidth), "height", Max(20, p.y - e.y))
         [] handle = "ne" ->
              With(With(With(e, "y", p.y),
                        "width", Max(20, p.x - e.x)), "height", newHeight)
         [] handle = "nw" ->
              With(With(With(With(e, "x", p.x), "y", p.y),
                        "width", newWidth), "height", newHeight)
         [] OTHER -> e

(* The rectangle and image branch of the resize. *)
ResizeRect(e, p, handle) ==
    LET currentWidth == WidthOf(e)
        currentHeight == HeightOf(e)
        newWidth == Max(20, e.x + currentWidth - p.x)
        newHeight == Max(20, e.y + currentHeight - p.y)
    IN CASE handle = "se" ->
              With(With(e, "width", Max(20, p.x - e.x)), "height", Max(20, p.y - e.y))
         [] handle = "sw" ->
              With(With(With(e, "x", e.x + currentWidth - newWidth),
                        "width", newWidth), "height", Max(20, p.y - e.y))
         [] handle = "ne" ->
              With(With(With(e, "y", e.y + currentHeight - newHeight),
                        "width", Max(20, p.x - e.x)), "height", newHeight)
         [] handle = "nw" ->
              With(With(With(With(e, "x", e.x + currentWidth - newWidth),
                             "y", e.y + currentHeight - newHeight),
                        "width", newWidth), "height", newHeight)
         [] OTHER -> e

ResizeElement(e, p, handle) ==
    IF IsCircle(e) THEN ResizeCircle(e, p, handle) ELSE ResizeRect(e, p, handle)

DragElement(e, p, offset) == With(With(e, "x", p.x - offset.x), "y", p.y - offset.y)

(* The selected element dragged whether or not the button is held. *)
MovedElements_noModeTest(p) ==
    IF Truthy(selectedElement)
    THEN [i \in 1..Len(elements) |->
            IF elements[i].id = selectedElement
            THEN DragElement(elements[i], p, dragOffset)
            ELSE elements[i]]
    ELSE elements

(* The elements after a pointer-move at p. *)
MovedElements(p) ==
    IF isResizing /\ Truthy(selectedElement) /\ Truthy(resizeHandle)
    THEN [i \in 1..Len(elements) |->
            IF elements[i].id = selectedElement
            THEN ResizeElement(elements[i], p, resizeHandle)
            ELSE elements[i]]
    ELSE IF isDragging /\ Truthy(selectedElement)
    THEN [i \in 1..Len(elements) |->
            IF elements[i].id = selectedElement
            THEN DragElement(elements[i], p, dragOffset)
            ELSE elements[i]]
    ELSE elements

(* moves counts the pointer-moves that changed an element. *)
handleCanvasMouseMove(p) ==
    /\ UNCHANGED <<pointerVars, dialogVars, toolbarVars, imageVars, now>>
    /\ elements' = MovedElements(p)
    /\ IF elements' = elements
       THEN moves' = moves
       ELSE moves < MaxMoves /\ moves' = moves + 1

(* The handle left as it was when the button is released. *)
handleCanvasMouseUp_keepsHandle ==
    /\ isDragging' = FALSE
    /\ isResizing' = FALSE
    /\ UNCHANGED <<elements, selectedElement, dragOffset, resizeHandle, dialogVars,
                   toolbarVars, imageVars, now, moves>>

handleCanvasMouseUp ==
    /\ isDragging' = FALSE
    /\ isResizing' = FALSE
    /\ resizeHandle' = Null
    /\ UNCHANGED <<elements, selectedElement, dragOffset, dialogVars, toolbarVars,
                   imageVars, now, moves>>

-----------------------------------------------------------------------------
(* Keyboard and buttons *)

(* Escape ending the drag in progress instead of the selection. *)
handleKeyDown_endsDrag(key) ==
    /\ isDragging' = IF key = "Escape" THEN FALSE ELSE isDragging
    /\ UNCHANGED <<elements, selectedElement, dragOffset, isResizing, resizeHandle,
                   dialogVars, toolbarVars, imageVars, now, moves>>

handleKeyDown(key) ==
    /\ selectedElement' = IF key = "Escape" THEN Null ELSE selectedElement
    /\ UNCHANGED <<elements, isDragging, dragOffset, isResizing, resizeHandle,
                   dialogVars, toolbarVars, imageVars, now, moves>>

(* The deselect button, disabled while nothing is selected:               *)
(* onClick={() => setSelectedElement(null)} disabled={!selectedElement}   *)
deselect ==
    /\ Truthy(selectedElement)
    /\ selectedElement' = Null
    /\ UNCHANGED <<elements, isDragging, dragOffset, isResizing, resizeHandle,
                   dialogVars, toolbarVars, imageVars, now, moves>>

(* The selection left as it is after the filter. *)
deleteSelectedElement_keepsSelection ==
    /\ IF Truthy(selectedElement)
       THEN /\ elements' = FilterOut(elements, selectedElement)
            /\ UNCHANGED selectedElement
       ELSE UNCHANGED <<elements, selectedElement>>
    /\ UNCHANGED <<isDragging, dragOffset, isResizing, resizeHandle, dialogVars,
                   toolbarVars, imageVars, now, moves>>

(* The function itself, also where its button is disabled: with nothing   *)
(* selected its if-block is skipped.                                      *)
deleteSelectedElement ==
    /\ IF Truthy(selectedElement)
       THEN /\ elements' = FilterOut(elements, selectedElement)
            /\ selectedElement' = Null
       ELSE UNCHANGED <<elements, selectedElement>>
    /\ UNCHANGED <<isDragging, dragOffset, isResizing, resizeHandle, dialogVars,
                   toolbarVars, imageVars, now, moves>>

-----------------------------------------------------------------------------
(* Adding elements.  Every add reads Date.now(): a reading t that is not  *)
(* before the previous one.                                               *)

DateNow(t) == t \in now..MaxClock /\ now' = t

NewShape(t, shapeType, color) ==
    [id |-> toString(t), type |-> "shape", x |-> 200, y |-> 200,
     width |-> 50, height |-> 50, color |-> color, shapeType |-> shapeType]

(* The new shape selected as it is added. *)
addShapeElement_selects(t, shapeType, color) ==
    /\ Len(elements) < MaxElements
    /\ DateNow(t)
    /\ elements' = Append(elements, NewShape(t, shapeType, color))
    /\ selectedElement' = toString(t)
    /\ UNCHANGED <<isDragging, dragOffset, isResizing, resizeHandle, dialogVars,
                   toolbarVars, imageVars, moves>>

addShapeElement(t, shapeType, color) ==
    /\ Len(elements) < MaxElements
    /\ DateNow(t)
    /\ elements' = Append(elements, NewShape(t, shapeType, color))
    /\ UNCHANGED <<pointerVars, dialogVars, toolbarVars, imageVars, moves>>

NewText(t, text, color, fontSize) ==
    [id |-> toString(t), type |-> "text", x |-> 200, y |-> 200,
     content |-> text, color |-> color, fontSize |-> fontSize]

addTextElement(t, text, color, fontSize) ==
    /\ DateNow(t)
    /\ elements' = Append(elements, NewText(t, text, color, fontSize))

handleAddText ==
    /\ showTextInput' = TRUE
    /\ inputText' = << >>
    /\ UNCHANGED <<elements, pointerVars, toolbarVars, imageVars, now, moves>>

(* onChange of the dialog's input: setInputText(e.target.value) *)
setInputText(text) ==
    /\ showTextInput
    /\ inputText' = text
    /\ UNCHANGED <<elements, pointerVars, showTextInput, toolbarVars, imageVars,
                   now, moves>>

handleTextSubmit(t) ==
    /\ showTextInput
    /\ IF trim(inputText) # << >>
       THEN /\ Len(elements) < MaxElements
            /\ addTextElement(t, inputText, selectedColor, globalFontSize)
            /\ showTextInput' = FALSE
            /\ inputText' = << >>
       ELSE /\ t = now
            /\ UNCHANGED <<elements, dialogVars, now>>
    /\ UNCHANGED <<pointerVars, toolbarVars, imageVars, moves>>

handleTextCancel ==
    /\ showTextInput
    /\ showTextInput' = FALSE
    /\ inputText' = << >>
    /\ UNCHANGED <<elements, pointerVars, toolbarVars, imageVars, now, moves>>

(* The file input's onChange: an image file starts a FileReader. *)
handleFileChange(file) ==
    /\ IF file.present /\ IsImageType(file.type)
       THEN /\ Len(readers) < MaxReaders
            /\ readers' = Append(readers, file.result)
       ELSE UNCHANGED readers
    /\ UNCHANGED <<elements, pointerVars, dialogVars, toolbarVars, imageCache,
                   decoding, now, moves>>

NewImage(t, imageSrc) ==
    [id |-> toString(t), type |-> "image", x |-> 200, y |-> 200,
     width |-> 100, height |-> 100, src |-> imageSrc]

(* reader.onload of the i-th pending FileReader: the decode of a new Image *)
(* starts and the image element is appended.                               *)
readerOnload(i, t) ==
    /\ i \in 1..Len(readers)
    /\ LET imageSrc == readers[i]
       IN IF Truthy(imageSrc)
          THEN /\ Len(elements) < MaxElements
               /\ Len(decoding) < MaxDecoding
               /\ DateNow(t)
               /\ decoding' = Append(decoding, imageSrc)
               /\ elements' = Append(elements, NewImage(t, imageSrc))
          ELSE /\ t = now
               /\ UNCHANGED <<decoding, elements, now>>
    /\ readers' = RemoveAt(readers, i)
    /\ UNCHANGED <<pointerVars, dialogVars, toolbarVars, imageCache, moves>>

(* The decoded image not put into the cache. *)
imgOnload_noCache(i) ==
    /\ i \in 1..Len(decoding)
    /\ elements' = elements
    /\ decoding' = RemoveAt(decoding, i)
    /\ UNCHANGED <<pointerVars, dialogVars, toolbarVars, imageCache, readers, now, moves>>

(* img.onload of the i-th decoding Image: the cache gets the source and    *)
(* setElements(prev => [...prev]) triggers a render.                       *)
imgOnload(i) ==
    /\ i \in 1..Len(decoding)
    /\ imageCache' = imageCache \cup {decoding[i]}
    /\ elements' = elements
    /\ decoding' = RemoveAt(decoding, i)
    /\ UNCHANGED <<pointerVars, dialogVars, toolbarVars, readers, now, moves>>

-----------------------------------------------------------------------------
(* The renderer.  The effect runs after every render in which elements,   *)
(* selectedElement or imageCache is a new value or a new object; every    *)
(* handler that sets one of them builds a new array or a new Map, so the  *)
(* canvas shows the frame of the current state.                           *)

(* Whether the frame drawn from the store and the cache shows e: the      *)
(* branches of elements.forEach.  An image in the cache was put there by  *)
(* its onload, so it is complete.                                         *)
Drawn(e, cache) ==
    IF e.type = "text" THEN OrEmpty(e) # << >>
    ELSE IF e.type = "shape" THEN e.shapeType \in {"rectangle", "circle"}
    ELSE e.type = "image" /\ Truthy(e.src) /\ e.src \in cache

(* The frame on the canvas: for each element, whether it is drawn and     *)
(* whether it carries the selection stroke.                               *)
Frame ==
    [i \in 1..Len(elements) |->
        [drawn |-> Drawn(elements[i], imageCache),
         highlighted |-> elements[i].id = selectedElement]]

-----------------------------------------------------------------------------
(* The toolbar's controls *)

setSelectedColor(color) ==
    /\ selectedColor' = color
    /\ UNCHANGED <<elements, pointerVars, dialogVars, globalFontSize, imageVars,
                   now, moves>>

setFontSize(size) ==
    /\ globalFontSize' = size
    /\ UNCHANGED <<elements, pointerVars, dialogVars, selectedColor, imageVars,
                   now, moves>>

-----------------------------------------------------------------------------

Init ==
    /\ elements = << >>
    /\ selectedElement = Null
    /\ isDragging = FALSE
    /\ dragOffset = [x |-> 0, y |-> 0]
    /\ showTextInput = FALSE
    /\ inputText = << >>
    /\ imageCache = {}
    /\ isResizing = FALSE
    /\ resizeHandle = Null
    /\ selectedColor = "#000000"
    /\ globalFontSize = 16
    /\ now = 0
    /\ readers = << >>
    /\ decoding = << >>
    /\ moves = 0

Next ==
    \/ \E p \in FewDownPoints : handleCanvasMouseDown(p)
    \/ \E p \in FewMovePoints : handleCanvasMouseMove(p)
    \/ handleCanvasMouseUp
    \/ \E key \in Keys : handleKeyDown(key)
    \/ deselect
    \/ deleteSelectedElement
    \/ \E t \in 0..MaxClock, shapeType \in {"rectangle", "circle"} :
          addShapeElement(t, shapeType, selectedColor)
    \/ handleAddText
    \/ \E text \in InputTexts : setInputText(text)
    \/ \E t \in 0..MaxClock : handleTextSubmit(t)
    \/ handleTextCancel
    \/ \E file \in Files : handleFileChange(file)
    \/ \E i \in 1..Len(readers), t \in 0..MaxClock : readerOnload(i, t)
    \/ \E i \in 1..Len(decoding) : imgOnload(i)
    \/ \E color \in Colors : setSelectedColor(color)
    \/ \E size \in FontSizes : setFontSize(size)

Spec == Init /\ [][Next]_vars

-----------------------------------------------------------------------------
(* The canvas handlers alone, over the whole grid of pointer positions,    *)
(* starting from any store the add handlers can have built, its images    *)
(* decoded.                                                                *)

NewElements(t) ==
    {NewShape(t, "rectangle", "#000000"), NewShape(t, "circle", "#000000"),
     NewText(t, <<" ", "A">>, "#000000", 16), NewImage(t, "data:image/png;a")}

(* The stores of at most two elements, with the clock readings of the adds. *)
Stores ==
    {[store |-> << >>, clock |-> 0]}
    \cup {[store |-> <<a>>, clock |-> 0] : a \in NewElements(0)}
    \cup UNION {{[store |-> <<a, b>>, clock |-> t] :
                    a \in NewElements(0), b \in NewElements(t)} : t \in 0..MaxClock}

InitPointer ==
    /\ \E s \in Stores : elements = s.store /\ now = s.clock
    /\ imageCache = {elements[i].src : i \in {j \in 1..Len(elements) :
                                                 elements[j].type = "image"}}
    /\ selectedElement = Null
    /\ isDragging = FALSE
    /\ dragOffset = [x |-> 0, y |-> 0]
    /\ showTextInput = FALSE
    /\ inputText = << >>
    /\ isResizing = FALSE
    /\ resizeHandle = Null
    /\ selectedColor = "#000000"
    /\ globalFontSize = 16
    /\ readers = << >>
    /\ decoding = << >>
    /\ moves = 0

NextPointer ==
    \/ \E p \in DownPoints : handleCanvasMouseDown(p)
    \/ \E p \in MovePoints : handleCanvasMouseMove(p)
    \/ handleCanvasMouseUp
    \/ \E key \in Keys : handleKeyDown(key)
    \/ deleteSelectedElement

SpecPointer == InitPointer /\ [][NextPointer]_vars

-----------------------------------------------------------------------------
(* Well-formedness of the model's arithmetic: a circle's width and height *)
(* stay even, so the halves taken in ResizeCircle are exact.              *)
CircleSizesEven ==
    \A i \in 1..Len(elements) :
        IsCircle(elements[i]) =>
            elements[i].width % 2 = 0 /\ elements[i].height % 2 = 0

-----------------------------------------------------------------------------
(* Claims *)

Ids(seq) == {seq[i].id : i \in 1..Len(seq)}

(* C1: the dragging mode and the resizing mode are never active at the    *)
(* same time, whatever sequence of pointer-down, pointer-move, pointer-up,*)
(* Escape and delete events has been delivered.                           *)
C1_ModesExclusive == ~(isDragging /\ isResizing)

(* C2: no two elements of the store have the same id, also when two adds  *)
(* read the same value of Date.now().                                     *)
C2_UniqueIds ==
    \A i, j \in 1..Len(elements) : i # j => elements[i].id # elements[j].id

(* C3: selectedElement is null or the id of an element of the store.      *)
C3_SelectionValid == selectedElement = Null \/ selectedElement \in Ids(elements)

(* A delete has removed the element that was being dragged. *)
C3_Witness == elements = << >> /\ isDragging /\ ~isResizing /\ selectedElement = Null

(* The state a pointer-down at p that hit element k and started a drag    *)
(* leaves, and that the same pointer-down leaves as it is: k is the first *)
(* element hit at p, it is selected and dragged, the offset is p minus    *)
(* its position, and p is on no handle of the selection.                  *)
DragStartedAt(p, k) ==
    /\ k \in 1..Len(elements)
    /\ isDragging
    /\ selectedElement = elements[k].id
    /\ dragOffset = [x |-> p.x - elements[k].x, y |-> p.y - elements[k].y]
    /\ ClickedIndex(p) = k
    /\ ~Truthy(GrabbedHandle(p))

(* C4: after a pointer-down at p that hit element e and started a drag, a *)
(* pointer-move to q leaves e at its position plus q - p with all its     *)
(* other fields as they were, and every other element unchanged.          *)
C4_DragTranslates ==
    [][\A p \in DownPoints \cup FewDownPoints, k \in 1..Len(elements) :
           DragStartedAt(p, k) =>
               \A q \in MovePoints \cup FewMovePoints :
                   handleCanvasMouseMove(q) =>
                       elements' = [elements EXCEPT
                                      ![k] = [@ EXCEPT !.x = @ + (q.x - p.x),
                                                       !.y = @ + (q.y - p.y)]]]_vars

Corners == {"nw", "ne", "sw", "se"}

(* The corner of e opposite to a corner handle. *)
OppositeCorner(e, handle) ==
    [x |-> IF handle \in {"se", "ne"} THEN e.x ELSE e.x + e.width,
     y |-> IF handle \in {"se", "sw"} THEN e.y ELSE e.y + e.height]

IsRectOrImage(e) ==
    \/ e.type = "image"
    \/ e.type = "shape" /\ e.shapeType = "rectangle"

(* C5: while a rectangle or an image is resized through a corner handle,  *)
(* every pointer-move leaves the corner opposite to the handle where it   *)
(* was, also when the minimum size clamps the width or the height.        *)
C5_OppositeCornerFixed ==
    [][(isResizing /\ resizeHandle \in Corners) =>
           \A i \in 1..Len(elements) :
               (elements[i].id = selectedElement /\ IsRectOrImage(elements[i])) =>
                   \A q \in MovePoints \cup FewMovePoints :
                       handleCanvasMouseMove(q) =>
                           /\ Len(elements') = Len(elements)
                           /\ OppositeCorner(elements'[i], resizeHandle)
                                = OppositeCorner(elements[i], resizeHandle)]_vars

(* A rectangle pulled by its nw handle past the opposite corner: clamped  *)
(* to the minimum width, its right edge still at 250.                     *)
C5_Witness ==
    \E i \in 1..Len(elements) :
        /\ IsRectOrImage(elements[i])
        /\ elements[i].id = selectedElement
        /\ isResizing /\ resizeHandle = "nw"
        /\ elements[i].width = 20
        /\ elements[i].x = 230

(* C6: delete removes the selected element from the store and clears the  *)
(* selection; with nothing selected it changes neither.                   *)
C6_DeleteRemovesSelected ==
    [][deleteSelectedElement =>
          IF selectedElement # Null
          THEN /\ selectedElement \notin Ids(elements')
               /\ selectedElement' = Null
               /\ \A i \in 1..Len(elements) :
                     elements[i].id # selectedElement =>
                         \E j \in 1..Len(elements') : elements'[j] = elements[i]
               /\ \A j \in 1..Len(elements') :
                     \E i \in 1..Len(elements) : elements[i] = elements'[j]
          ELSE elements' = elements /\ selectedElement' = selectedElement]_vars

(* A delete has removed the element that was being resized. *)
C6_Witness == elements = << >> /\ isResizing /\ selectedElement = Null

(* C7: an Escape key event leaves no element selected, from any state.    *)
C7_EscapeClearsSelection ==
    [][handleKeyDown("Escape") => selectedElement' = Null]_vars

(* The state Escape leaves when pressed while both elements of the store  *)
(* are there and the selected one is being resized.                       *)
C7_Witness ==
    /\ selectedElement = Null
    /\ isResizing /\ resizeHandle # Null
    /\ Len(elements) = MaxElements

(* A step in which an add succeeds: a shape button, a submit of non-blank *)
(* text, the load of an image file.                                       *)
Blank(text) == \A i \in 1..Len(text) : text[i] = " "

SuccessfulAdd ==
    \/ \E t \in 0..MaxClock, shapeType \in {"rectangle", "circle"} :
          addShapeElement(t, shapeType, selectedColor)
    \/ \E t \in 0..MaxClock : handleTextSubmit(t) /\ ~Blank(inputText)
    \/ \E i \in 1..Len(readers), t \in 0..MaxClock :
          readerOnload(i, t) /\ readers[i] # ""

WithinRadius(p, e) ==
    LET dx2 == 2 * p.x - (2 * e.x + e.width)
        dy2 == 2 * p.y - (2 * e.y + e.height)
    IN dx2 * dx2 + dy2 * dy2 <= e.width * e.width

(* C9 as stated: a pointer-down within a circle's radius selects that     *)
(* circle; one outside it selects nothing or another element that         *)
(* contains the point.                                                    *)
C9_CircleHit ==
    [][\A k \in 1..Len(elements) :
           IsCircle(elements[k]) =>
               \A p \in DownPoints \cup FewDownPoints :
                   handleCanvasMouseDown(p) =>
                       IF WithinRadius(p, elements[k])
                       THEN selectedElement' = elements[k].id
                       ELSE \/ selectedElement' = Null
                            \/ \E j \in 1..Len(elements) :
                                  /\ j # k
                                  /\ HitTest(p, elements[j])
                                  /\ selectedElement' = elements[j].id]_vars

(* C9 as amended: when the point is on no resize handle of the selected   *)
(* element, a pointer-down within a circle's radius and inside no earlier *)
(* element of the store selects that circle and starts dragging it; one   *)
(* outside its radius selects nothing or another element that contains    *)
(* the point.                                                             *)
C9_CircleHitFirst ==
    [][\A k \in 1..Len(elements) :
           IsCircle(elements[k]) =>
               \A p \in DownPoints \cup FewDownPoints :
                   (handleCanvasMouseDown(p) /\ ~Truthy(GrabbedHandle(p))) =>
                       IF WithinRadius(p, elements[k])
                       THEN (\A j \in 1..(k - 1) : ~HitTest(p, elements[j])) =>
                                selectedElement' = elements[k].id /\ isDragging'
                       ELSE \/ selectedElement' = Null
                            \/ \E j \in 1..Len(elements) :
                                  /\ j # k
                                  /\ HitTest(p, elements[j])
                                  /\ selectedElement' = elements[j].id]_vars

(* A circle that is second in the store has been selected by a            *)
(* pointer-down on its rim, the first element being elsewhere.            *)
C9_Witness ==
    /\ Len(elements) = 2
    /\ IsCircle(elements[2])
    /\ elements[1].id # elements[2].id
    /\ selectedElement = elements[2].id
    /\ isDragging
    /\ \E p \in DownPoints :
          /\ WithinRadius(p, elements[2])
          /\ ~HitTest(p, elements[1])
          /\ dragOffset = [x |-> p.x - elements[2].x, y |-> p.y - elements[2].y]

(* C10: a submit of blank text leaves the store, the selection and the    *)
(* open dialog as they are; a submit of non-blank text appends one text   *)
(* element with the typed text, the current colour and the current font   *)
(* size, and closes the dialog.                                           *)
C10_TextSubmit ==
    [][(\E t \in 0..MaxClock : handleTextSubmit(t)) =>
          IF Blank(inputText)
          THEN /\ elements' = elements
               /\ selectedElement' = selectedElement
               /\ showTextInput'
          ELSE /\ Len(elements') = Len(elements) + 1
               /\ SubSeq(elements', 1, Len(elements)) = elements
               /\ LET new == elements'[Len(elements')]
                  IN /\ new.type = "text"
                     /\ new.content = inputText
                     /\ new.color = selectedColor
                     /\ new.fontSize = globalFontSize
               /\ selectedElement' = selectedElement
               /\ ~showTextInput']_vars

(* A text element added with a colour and a font size chosen in the       *)
(* toolbar, the dialog closed.                                            *)
C10_Witness ==
    /\ ~showTextInput
    /\ \E i \in 1..Len(elements) :
          /\ elements[i].type = "text"
          /\ elements[i].color = "#ff0000"
          /\ elements[i].fontSize = 24

(* A file input change that chose no file or a file that is no image. *)
NotAnImage(file) == ~file.present \/ file.type = "text/plain"

(* C11: choosing no file or a file that is not an image leaves the store, *)
(* the image cache, the selection and the interaction mode as they are    *)
(* and schedules no callback: no FileReader and no decode is pending that *)
(* was not pending before.                                                *)
C11_NonImageIgnored ==
    [][\A file \in Files :
           (NotAnImage(file) /\ handleFileChange(file)) =>
               UNCHANGED <<elements, imageCache, pointerVars, readers, decoding>>]_vars

(* A file can be chosen while an element is dragged, an image is cached   *)
(* and nothing is pending.                                                *)
C11_Witness ==
    /\ isDragging /\ selectedElement # Null
    /\ imageCache # {}
    /\ readers = << >> /\ decoding = << >>

(* C12: a pointer-up on the canvas leaves isDragging false, isResizing    *)
(* false and resizeHandle null, and changes neither the store nor the     *)
(* selection.                                                             *)
C12_PointerUpClearsModes ==
    [][handleCanvasMouseUp =>
          /\ ~isDragging' /\ ~isResizing' /\ resizeHandle' = Null
          /\ UNCHANGED <<elements, selectedElement>>]_vars

(* The pointer was released after a resize that hit the minimum width:    *)
(* the element resized is still selected, no mode is active.              *)
C12_Witness ==
    /\ ~isDragging /\ ~isResizing /\ resizeHandle = Null
    /\ moves = 1
    /\ \E i \in 1..Len(elements) :
          /\ elements[i].id = selectedElement
          /\ elements[i].type # "text"
          /\ elements[i].width = 20

(* C13: a pointer-down on a resize handle of a selected element enters    *)
(* resizing with that handle and changes neither the selection nor        *)
(* isDragging nor the drag offset, also when the point is inside another  *)
(* element.  An element is selected when its id is selectedElement: the   *)
(* renderer highlights it and draws its handles.                          *)
C13_HandlePrecedence ==
    [][\A k \in 1..Len(elements) :
           (Truthy(selectedElement) /\ elements[k].id = selectedElement) =>
               \A p \in DownPoints \cup FewDownPoints :
                   (/\ Truthy(getResizeHandle(p, elements[k]))
                    /\ handleCanvasMouseDown(p)) =>
                       /\ isResizing'
                       /\ resizeHandle' = getResizeHandle(p, elements[k])
                       /\ UNCHANGED <<selectedElement, isDragging, dragOffset>>]_vars

(* The point p is on a resize handle of an element carrying the selected  *)
(* id.                                                                    *)
OnHandleOfSelected(p) ==
    /\ Truthy(selectedElement)
    /\ \E k \in 1..Len(elements) :
          /\ elements[k].id = selectedElement
          /\ Truthy(getResizeHandle(p, elements[k]))

(* The indices of the elements that contain p. *)
HitAt(p) == {k \in 1..Len(elements) : HitTest(p, elements[k])}

(* C14: a pointer-down at a point p that is on no resize handle of the    *)
(* selected element and inside several elements selects the one of them   *)
(* that comes first in store order, enters dragging and stores p minus    *)
(* that element's position as the drag offset.                            *)
C14_FirstHitSelected ==
    [][\A p \in DownPoints \cup FewDownPoints :
           (/\ Cardinality(HitAt(p)) >= 2
            /\ handleCanvasMouseDown(p)
            /\ ~OnHandleOfSelected(p)) =>
               \A k \in HitAt(p) :
                   (\A j \in HitAt(p) : k <= j) =>
                       /\ selectedElement' = elements[k].id
                       /\ isDragging'
                       /\ dragOffset' = [x |-> p.x - elements[k].x,
                                         y |-> p.y - elements[k].y]]_vars

(* Two elements with different ids contain the point pressed: the first   *)
(* is the selected one and is dragged.                                    *)
C14_Witness ==
    /\ Len(elements) = 2
    /\ elements[1].id # elements[2].id
    /\ selectedElement = elements[1].id
    /\ isDragging /\ ~isResizing
    /\ \E p \in DownPoints :
          /\ HitTest(p, elements[1])
          /\ HitTest(p, elements[2])
          /\ dragOffset = [x |-> p.x - elements[1].x, y |-> p.y - elements[1].y]

CircleHandles == {"n", "e", "s", "w"}

Abs(a) == IF a < 0 THEN -a ELSE a

(* Twice the pointer's displacement from the centre of e along the axis   *)
(* of the handle, positive towards the handle's side.                     *)
TowardsHandle2(e, q, handle) ==
    LET cx2 == 2 * e.x + e.width
        cy2 == 2 * e.y + e.height
    IN CASE handle = "n" -> cy2 - 2 * q.y
         [] handle = "s" -> 2 * q.y - cy2
         [] handle = "e" -> 2 * q.x - cx2
         [] handle = "w" -> cx2 - 2 * q.x

(* A pointer-move to q while the circle elements[k] is resized through    *)
(* one of its handles.                                                    *)
CircleResizedTo(k, q) ==
    /\ isResizing
    /\ resizeHandle \in CircleHandles
    /\ Truthy(selectedElement)
    /\ elements[k].id = selectedElement
    /\ IsCircle(elements[k])
    /\ handleCanvasMouseMove(q)

(* The circle keeps its centre and stays as wide as high. *)
CentreKept(k) ==
    /\ Len(elements') = Len(elements)
    /\ IsCircle(elements'[k])
    /\ 2 * elements'[k].x + elements'[k].width = 2 * elements[k].x + elements[k].width
    /\ 2 * elements'[k].y + elements'[k].height = 2 * elements[k].y + elements[k].height
    /\ elements'[k].width = elements'[k].height

(* C15 as stated: every pointer-move during the resize of a circle keeps  *)
(* its centre and width = height, and the new size is the larger of 20    *)
(* and twice the distance of the pointer from the centre along the axis   *)
(* of the handle.                                                         *)
C15_CircleResizeDistance ==
    [][\A k \in 1..Len(elements), q \in MovePoints \cup FewMovePoints :
           CircleResizedTo(k, q) =>
               /\ CentreKept(k)
               /\ elements'[k].width
                    = Max(20, Abs(TowardsHandle2(elements[k], q, resizeHandle)))]_vars

(* C15 as amended: every pointer-move during the resize of a circle keeps *)
(* its centre and width = height, and the new size is the larger of 20    *)
(* and twice the displacement of the pointer from the centre towards the  *)
(* side of the handle: 20 once the pointer has crossed the centre.        *)
C15_CircleResizeTowardsHandle ==
    [][\A k \in 1..Len(elements), q \in MovePoints \cup FewMovePoints :
           CircleResizedTo(k, q) =>
               /\ CentreKept(k)
               /\ elements'[k].width
                    = Max(20, TowardsHandle2(elements[k], q, resizeHandle))]_vars

(* A new circle pulled by its n handle to below its centre: 20 wide and   *)
(* high, the centre still at (225, 225).                                  *)
C15_Witness ==
    \E k \in 1..Len(elements) :
        /\ IsCircle(elements[k])
        /\ elements[k].id = selectedElement
        /\ isResizing /\ resizeHandle = "n"
        /\ elements[k].width = 20 /\ elements[k].height = 20
        /\ elements[k].x = 215 /\ elements[k].y = 215

(* The cache gets a source only from the decode callback of that source,  *)
(* and loses none.                                                        *)
CacheFilledByDecode ==
    /\ imageCache \subseteq imageCache'
    /\ \A src \in imageCache' \ imageCache :
          \E i \in 1..Len(decoding) : decoding[i] = src /\ imgOnload(i)

(* Once the decode callback of a source has fired, the frame shows every  *)
(* image element of the store with that source.                           *)
DrawnAfterDecode ==
    \A i \in 1..Len(decoding) :
        imgOnload(i) =>
            \A k \in 1..Len(elements') :
                (elements'[k].type = "image" /\ elements'[k].src = decoding[i]) =>
                    Drawn(elements'[k], imageCache')

(* C16 as stated: the cache is filled by the decode callbacks only, an    *)
(* image element is not drawn in the frame that follows its add, its      *)
(* decode being under way, and the frame that follows the decode callback *)
(* draws it if it is still in the store.                                  *)
C16_AddedImageSkipped ==
    [][/\ CacheFilledByDecode
       /\ DrawnAfterDecode
       /\ \A i \in 1..Len(readers), t \in 0..MaxClock :
             (readerOnload(i, t) /\ Len(elements') = Len(elements) + 1) =>
                 ~Drawn(elements'[Len(elements')], imageCache')]_vars

(* C16 as amended: the cache is filled by the decode callbacks only, an   *)
(* image element whose source is not in the cache when it is added is not *)
(* drawn in the frame that follows its add, and the frame that follows    *)
(* the decode callback of a source draws every image element with that    *)
(* source that is still in the store.                                     *)
C16_ImageDrawnOnceCached ==
    [][/\ CacheFilledByDecode
       /\ DrawnAfterDecode
       /\ \A i \in 1..Len(readers), t \in 0..MaxClock :
             (/\ readerOnload(i, t)
              /\ Len(elements') = Len(elements) + 1
              /\ readers[i] \notin imageCache) =>
                 ~Drawn(elements'[Len(elements')], imageCache')]_vars

(* An image added second has been dragged while it was decoded and is     *)
(* drawn in the current frame, no decode pending.                         *)
C16_Witness ==
    /\ Len(elements) = 2
    /\ elements[2].type = "image"
    /\ elements[2].y # 200
    /\ Frame[2].drawn /\ Frame[2].highlighted
    /\ decoding = << >>

(* C17: while isDragging or isResizing is true, selectedElement is the id *)
(* of an element of the store.                                            *)
C17_InteractionHasTarget ==
    (isDragging \/ isResizing) =>
        (selectedElement # Null /\ selectedElement \in Ids(elements))

(* C18: every shape and every image is at least 20 wide and 20 high, and  *)
(* every circle is as wide as it is high.                                 *)
C18_MinimumSizes ==
    \A i \in 1..Len(elements) :
        elements[i].type \in {"shape", "image"} =>
            /\ elements[i].width >= 20
            /\ elements[i].height >= 20
            /\ IsCircle(elements[i]) => elements[i].width = elements[i].height

(* A rectangle or an image pulled by a handle past the opposite corner,   *)
(* clamped in both directions.                                            *)
C18_Witness ==
    \E i \in 1..Len(elements) :
        /\ IsRectOrImage(elements[i])
        /\ elements[i].width = 20
        /\ elements[i].height = 20

(* No interaction mode is active. *)
Idle == ~isDragging /\ ~isResizing

(* C19: a pointer-up leaves the controller idle, only a pointer-down ends *)
(* the idle state, and a pointer-move in the idle state changes no        *)
(* element: between a pointer-up and the next pointer-down the store is   *)
(* not changed by pointer-moves.                                          *)
C19_NoChangeWhileReleased ==
    [][/\ handleCanvasMouseUp => Idle'
       /\ (Idle /\ ~Idle') =>
             \E p \in DownPoints \cup FewDownPoints : handleCanvasMouseDown(p)
       /\ Idle =>
             \A q \in MovePoints \cup FewMovePoints :
                 handleCanvasMouseMove(q) => elements' = elements]_vars

(* The button was released over the canvas after a pointer-down on an     *)
(* element: the element is still selected and no pointer-move has changed *)
(* anything yet.                                                          *)
C19_Witness ==
    /\ Idle
    /\ selectedElement \in Ids(elements)
    /\ dragOffset # [x |-> 0, y |-> 0]
    /\ moves = 0

(* C20: a pointer-down on no resize handle of the selected element and    *)
(* inside no element clears the selection, leaves neither isDragging nor  *)
(* isResizing true and does not change the store.                         *)
C20_MissLeavesIdle ==
    [][\A p \in DownPoints \cup FewDownPoints :
           (/\ HitAt(p) = {}
            /\ ~OnHandleOfSelected(p)
            /\ handleCanvasMouseDown(p)) =>
               /\ selectedElement' = Null
               /\ ~isDragging' /\ ~isResizing'
               /\ elements' = elements]_vars

-----------------------------------------------------------------------------

(* The fields of an element that say what it is, as opposed to where it   *)
(* is and how large.                                                      *)
IdentityFields == {"id", "type", "shapeType", "color", "content", "fontSize"}

(* e and f have the same identity fields with the same values. *)
SameIdentity(e, f) ==
    \A k \in IdentityFields :
        /\ (k \in DOMAIN e) = (k \in DOMAIN f)
        /\ k \in DOMAIN e => e[k] = f[k]

(* A step of pointer-down, pointer-move, pointer-up or Escape. *)
PointerOrEscape ==
    \/ \E p \in DownPoints \cup FewDownPoints : handleCanvasMouseDown(p)
    \/ \E p \in MovePoints \cup FewMovePoints : handleCanvasMouseMove(p)
    \/ handleCanvasMouseUp
    \/ handleKeyDown("Escape")

(* A step of delete with an element selected. *)
DeleteOfSelection == Truthy(selectedElement) /\ deleteSelectedElement

(* C21: pointer-down, pointer-move, pointer-up and Escape change neither  *)
(* the number of elements, nor their order, nor any element's id, type,   *)
(* shape kind, colour, content or font size; an add only appends at the   *)
(* end; a delete removes exactly one element and leaves the others as     *)
(* they were, in their order.                                             *)
C21_FrameEffects ==
    [][/\ PointerOrEscape =>
            /\ Len(elements') = Len(elements)
            /\ \A i \in 1..Len(elements) : SameIdentity(elements[i], elements'[i])
       /\ SuccessfulAdd =>
            /\ Len(elements') = Len(elements) + 1
            /\ SubSeq(elements', 1, Len(elements)) = elements
       /\ DeleteOfSelection =>
            /\ Len(elements') = Len(elements) - 1
            /\ \E k \in 1..Len(elements) : elements' = RemoveAt(elements, k)]_vars

(* C22: resizeHandle is non-null exactly when isResizing is true; while   *)
(* resizing, the selected element is not a text, and the handle is one of *)
(* n, e, s, w when it is a circle and one of nw, ne, sw, se when it is a  *)
(* rectangle or an image.                                                 *)
C22_ResizeHandleConsistent ==
    /\ (resizeHandle # Null) <=> isResizing
    /\ isResizing =>
          \A i \in 1..Len(elements) :
              elements[i].id = selectedElement =>
                  /\ elements[i].type # "text"
                  /\ IsCircle(elements[i]) => resizeHandle \in CircleHandles
                  /\ IsRectOrImage(elements[i]) => resizeHandle \in Corners

====
